---- MODULE Spec2Model ----
(***************************************************************************)
(* A model of the transcription-scripts repository: the command-line      *)
(* scripts add_durations.py, reorder_to_match.py, stitch_chunks.py,        *)
(* order_csvs.py and compare_filenames.py, and the pipeline driver         *)
(* process.py.  Each script is a state machine over                        *)
(* the rows of the CSV files it reads and writes; a CSV row is a function  *)
(* from column names to cell strings, as csv.DictReader produces it.       *)
(***************************************************************************)
EXTENDS Integers, Sequences, FiniteSets, TLC

VARIABLES
    \* ---- add_durations.py -------------------------------------------
    ad_pc,              \* position in add_durations
    ad_metadata_file,   \* -m / --metadata: a path
    ad_transcriptions_file, \* -t / --transcriptions: a path
    ad_output_file,     \* -o / --output: a path
    ad_fs,              \* the files: path -> [exists, headers, rows]
    metadata_rows,      \* data rows of metadata_file when the script starts
    transcriptions,     \* transcriptions_file when the script starts
    duration_map,       \* dict Filename -> duration_sec
    ad_i,               \* rows already consumed from the file being read
    ad_output,          \* what the script wrote to output_file
    ad_outfile,         \* the file object of output_file: where the lines written are
    rows_processed,
    rows_matched,
    rows_unmatched,
    \* ---- reorder_to_match.py ----------------------------------------
    ro_pc,              \* position in reorder_to_match
    reference_file,     \* -r / --reference: a path
    file_to_reorder,    \* -i / --input: a path
    output_file,        \* -o / --output: a path
    ro_fs,              \* the files: path -> [exists, headers, rows]
    reference,          \* what the reader of reference_file yields
    target,             \* what the reader of file_to_reorder yields
    match_column,       \* -c / --column
    reference_order,    \* list of reference keys
    rows_dict,          \* dict key -> row of file_to_reorder
    reordered_rows,
    missing_count,
    extra_keys,         \* set(rows_dict.keys()) - set(reference_order)
    extra_pending,      \* keys the loop over extra_keys has not visited yet
    ro_i,               \* rows / keys already consumed by the running loop
    ro_output,          \* what the script wrote to output_file
    ro_returncode,      \* exit status of the script, -1 while it runs
    \* ---- stitch_chunks.py -------------------------------------------
    st_pc,              \* position in stitch_csv_files
    folder,             \* input_folder when the script starts:
                        \* file name -> [openable, lines]
    st_output_file,     \* -o / --output: a file of input_folder or another
    st_output_opens,    \* whether output_file can be opened for writing
    st_fs,              \* the files as they are on disk: those of
                        \* input_folder and, once opened, output_file
    sort_files,         \* FALSE under --no-sort
    csv_files,          \* the list of files in processing order
    st_i,               \* files already processed
    st_j,               \* lines already read from the open file
    header_written,
    rows_written,
    st_output,          \* what the script wrote to output_file
    st_outfile,         \* the file object of output_file: where the lines written are
    st_returncode,      \* exit status of the script, -1 while it runs
    \* ---- process.py -------------------------------------------------
    dr_pc,              \* position in main / process_transcriptions
    args_name,          \* the positional argument
    args_metadata,      \* -m / --metadata, or its default
    global_metadata_file, \* the module-level name main assigns
    input_folder,       \* locals of process_transcriptions
    output_folder,
    metadata_file,
    fs_input_folder,    \* what <name>_files is: "absent", "file" or "dir"
    fs_csv_count,       \* how many *.csv files it holds
    fs_metadata_files,  \* the metadata paths that exist
    fs_output_folder,   \* what <name>_generated_files is: "absent", "file" or "dir"
    dr_step,            \* the pipeline step the driver is at
    commands,           \* the commands handed to subprocess.run so far
    returncodes,        \* the exit statuses they completed with
    dr_complete,        \* the 'Processing complete' report was printed
    dr_exit,            \* exit status of the driver, -1 while it runs
    \* ---- order_csvs.py ----------------------------------------------
    oc_pc,              \* position in order_csv_files
    file1,              \* the two positional arguments: paths
    file2,
    sort_column,        \* -c / --column
    output_suffix,      \* -s / --suffix
    oc_fs,              \* the files: path -> [exists, headers, rows]
    headers1,           \* reader.fieldnames of each file
    headers2,
    rows1,              \* list(reader) of each file
    rows2,
    rows1_sorted,
    rows2_sorted,
    output1,            \* the output names derived from file1 and file2
    output2,
    values_match,       \* values1 == values2, "unknown" until compared
    oc_returncode,      \* exit status of the script, -1 while it runs
    \* ---- compare_filenames.py ---------------------------------------
    cf_pc,              \* position in compare_filenames
    cf_lines1,          \* the lines csv.reader yields for file1, header first
    cf_lines2,          \* and for file2
    filenames1,
    filenames2,
    set1,
    set2,
    only_in_file1,
    only_in_file2,
    common_count,       \* len(set1 & set2)
    dups1,              \* the duplicates listed when the two sets are equal
    dups2,
    cf_returncode       \* exit status of the script, -1 while it runs

ad_paths == <<ad_metadata_file, ad_transcriptions_file, ad_output_file>>

ad_vars == <<ad_pc, ad_paths, ad_fs, metadata_rows, transcriptions,
             duration_map, ad_i, ad_output, ad_outfile, rows_processed,
             rows_matched, rows_unmatched>>

ro_paths == <<reference_file, file_to_reorder, output_file>>

ro_vars == <<ro_pc, reference, target, match_column, ro_paths, ro_fs, reference_order,
             rows_dict, reordered_rows, missing_count, extra_keys,
             extra_pending, ro_i, ro_output, ro_returncode>>

st_args == <<folder, st_output_file, st_output_opens, sort_files>>

st_vars == <<st_pc, st_args, st_fs, csv_files, st_i, st_j, header_written,
             rows_written, st_output, st_outfile, st_returncode>>

dr_vars == <<dr_pc, args_name, args_metadata, global_metadata_file,
             input_folder, output_folder, metadata_file, fs_input_folder,
             fs_csv_count, fs_metadata_files, fs_output_folder, dr_step,
             commands, returncodes, dr_complete, dr_exit>>

oc_vars == <<oc_pc, file1, file2, sort_column, output_suffix, oc_fs, headers1, headers2, rows1,
             rows2, rows1_sorted, rows2_sorted, output1, output2, values_match,
             oc_returncode>>

cf_vars == <<cf_pc, cf_lines1, cf_lines2, filenames1, filenames2, set1, set2,
             only_in_file1, only_in_file2, common_count, dups1, dups2,
             cf_returncode>>

vars == <<ad_vars, ro_vars, st_vars, dr_vars, oc_vars, cf_vars>>

\* What a script leaves alone: the state of the other scripts.
other_than_ad == <<ro_vars, st_vars, dr_vars, oc_vars, cf_vars>>
other_than_ro == <<ad_vars, st_vars, dr_vars, oc_vars, cf_vars>>
other_than_st == <<ad_vars, ro_vars, dr_vars, oc_vars, cf_vars>>
other_than_dr == <<ad_vars, ro_vars, st_vars, oc_vars, cf_vars>>
other_than_oc == <<ad_vars, ro_vars, st_vars, dr_vars, cf_vars>>
other_than_cf == <<ad_vars, ro_vars, st_vars, dr_vars, oc_vars>>

----------------------------------------------------------------------------
(* Bounds of the model and the cell values the input files are drawn from. *)

MaxMeta == 2        \* data rows in a metadata file
MaxTrans == 2       \* data rows in a transcriptions file
MaxRef == 2         \* data rows in a reference file
MaxTarget == 3      \* data rows in a file to reorder
MaxChunkRows == 2   \* data rows in a chunk file
MaxRowsWritten == 8 \* rows stitch_chunks writes before the model leaves it
MaxCsv == 2         \* CSV files in the driver's input folder
MaxSortRows == 3    \* data rows in the first file of sort-compare
MaxOtherRows == 1   \* data rows in the second file of sort-compare
MaxCompareRows == 2 \* data lines in a file of diff-keys

Filenames == {"a.wav", "b.wav", "c.wav"}
JoinFilenames == {"a.wav", "b.wav"}
Durations == {"", "1.2", "2.0"}

\* Python's None, as dict.get returns it for an absent key.
None == "<None>"

\* A file that does not exist (yet).
NoFile == [exists |-> FALSE, headers |-> <<>>, rows |-> <<>>]

Range(s) == {s[i] : i \in 1..Len(s)}

SeqsUpTo(S, n) == UNION {[1..k -> S] : k \in 0..n}

----------------------------------------------------------------------------
(* Python helpers.                                                         *)

\* dict.get(key, default)
Get(row, key, default) == IF key \in DOMAIN row THEN row[key] ELSE default

\* truth value of a str-or-None
Truthy(v) == v # None /\ v # ""

\* x or y
PyOr(x, y) == IF Truthy(x) THEN x ELSE y

\* d[key] = value
DictSet(d, key, value) ==
    [k \in (DOMAIN d) \cup {key} |-> IF k = key THEN value ELSE d[k]]

EmptyDict == [k \in {} |-> ""]

----------------------------------------------------------------------------
(* The file object open(path, 'w', newline='', encoding='utf-8') returns:  *)
(* an io.TextIOWrapper over an io.BufferedWriter.                          *)

\* The text layer hands its pending bytes on once it holds this many.
ChunkSize == 8192

\* The size of the BufferedWriter's buffer: the block size of the file
\* system.
BufferSize == 4096

RECURSIVE Doubled(_, _)
Doubled(s, n) == IF n = 0 THEN s ELSE Doubled(s \o s, n - 1)

\* A cell of ChunkSize characters: a line that holds it does not stay in the
\* writer's buffers.
LongText == Doubled("x", 13)

RECURSIVE CellsBytes(_)
CellsBytes(cells) ==
    IF cells = <<>> THEN 0 ELSE Len(Head(cells)) + CellsBytes(Tail(cells))

\* The bytes csv.writer writes for a line of plain cells: the cells, the
\* commas between them and '\r\n'.
LineBytes(cells) == CellsBytes(cells) + (Len(cells) - 1) + 2

\* A file object just opened for writing: no line is on disk (flushed), in
\* the BufferedWriter's buffer, or pending in the text layer.
Opened ==
    [flushed |-> 0, buffer_lines |-> 0, buffer_bytes |-> 0,
     pending_lines |-> 0, pending_bytes |-> 0]

\* The text layer hands its pending bytes to BufferedWriter.write: they are
\* buffered when they fit in what is left of the buffer; otherwise the buffer
\* is written to the file, and the bytes are written after it when they are
\* more than a buffer, buffered when not.
WriteFlush(f) ==
    IF f.pending_bytes <= BufferSize - f.buffer_bytes
    THEN [f EXCEPT !.buffer_lines = @ + f.pending_lines,
                   !.buffer_bytes = @ + f.pending_bytes,
                   !.pending_lines = 0,
                   !.pending_bytes = 0]
    ELSE IF f.pending_bytes > BufferSize
    THEN [flushed |-> f.flushed + f.buffer_lines + f.pending_lines,
          buffer_lines |-> 0, buffer_bytes |-> 0,
          pending_lines |-> 0, pending_bytes |-> 0]
    ELSE [flushed |-> f.flushed + f.buffer_lines,
          buffer_lines |-> f.pending_lines, buffer_bytes |-> f.pending_bytes,
          pending_lines |-> 0, pending_bytes |-> 0]

\* f.write of one line of n bytes: pending bytes that the line would take
\* over ChunkSize are handed on first, the line is added to the pending
\* bytes, and these are handed on when they have reached ChunkSize.
Write(f, n) ==
    LET g == IF f.pending_bytes > 0 /\ f.pending_bytes + n > ChunkSize
             THEN WriteFlush(f) ELSE f
        h == [g EXCEPT !.pending_lines = @ + 1, !.pending_bytes = @ + n]
    IN IF h.pending_bytes >= ChunkSize THEN WriteFlush(h) ELSE h

\* f.close(): every line written is on disk.
Close(f) ==
    [flushed |-> f.flushed + f.buffer_lines + f.pending_lines,
     buffer_lines |-> 0, buffer_bytes |-> 0,
     pending_lines |-> 0, pending_bytes |-> 0]

----------------------------------------------------------------------------
(* add_durations.py                                                        *)

MetadataRows == [Filename : JoinFilenames, duration_sec : Durations]

\* The header lines a transcriptions file may have: the transcript is under
\* 'Transcription', under 'transcript', or both columns are present.
TransHeaders == { <<"Filename", "Transcription">>,
                  <<"Filename", "transcript">>,
                  <<"Filename", "Transcription", "transcript">> }

\* The cells a column may hold; keys are the values of a key column.
CellValues(column, keys) ==
    CASE column \in {"Filename", "File"} -> keys
      [] column = "Transcription" -> {"", "hi"}
      [] column = "transcript" -> {"hi", "bye"}

\* The rows csv.DictReader yields under a header line: one cell per column.
\* Under a header with both transcript columns the 'transcript' cell is
\* "bye", which differs from every 'Transcription' cell.
RowsOf(headers, keys) ==
    {r \in [Range(headers) -> keys \cup {"", "hi", "bye"}] :
        /\ \A c \in Range(headers) : r[c] \in CellValues(c, keys)
        /\ {"Transcription", "transcript"} \subseteq Range(headers)
               => r["transcript"] = "bye"}

FilesWith(headers, keys, n) ==
    {[exists |-> TRUE, headers |-> headers, rows |-> rs] :
        rs \in SeqsUpTo(RowsOf(headers, keys), n)}

\* Rows of a transcriptions file one of which is longer than ChunkSize.
LongRows == { [Filename |-> "a.wav", transcript |-> LongText],
              [Filename |-> "b.wav", transcript |-> "hi"] }

TransFiles ==
    UNION {FilesWith(h, JoinFilenames, MaxTrans) : h \in TransHeaders}
    \cup {[exists |-> TRUE, headers |-> <<"Filename", "transcript">>, rows |-> rs] :
            rs \in SeqsUpTo(LongRows, MaxTrans)}

\* add_durations.py:52  row.get('Transcription') or row.get('transcript', '')
TranscriptionOf(row) ==
    PyOr(Get(row, "Transcription", None), Get(row, "transcript", ""))

\* add_durations.py:55  duration_map.get(filename, '')
DurationOf(dmap, filename) == Get(dmap, filename, "")

\* add_durations.py:64-68  the row handed to writer.writerow
JoinedRow(dmap, row) ==
    [Filename |-> row["Filename"],
     duration_sec |-> DurationOf(dmap, row["Filename"]),
     transcript |-> TranscriptionOf(row)]

\* The paths the arguments of add_durations.py name.
AdPaths == {"m.csv", "t.csv", "out.csv"}

\* The metadata file that holds the rows.
MetadataFile(rows) ==
    [exists |-> TRUE, headers |-> <<"Filename", "duration_sec">>, rows |-> rows]

\* A file just opened for writing.
Truncated == [exists |-> TRUE, headers |-> <<>>, rows |-> <<>>]

\* add_durations.py:43-45  the header line handed to writer.writeheader
OutputHeaders == <<"Filename", "duration_sec", "transcript">>

\* The cells of a row, in the order of the output columns.
LineOf(row) == [i \in 1..Len(OutputHeaders) |-> row[OutputHeaders[i]]]

\* The output file on disk when the first lines of what was written, the
\* header line being one, have left the buffers of the file object.
OnDisk(written, lines) ==
    IF lines = 0 THEN Truncated
    ELSE [exists |-> TRUE, headers |-> written.headers,
          rows |-> SubSeq(written.rows, 1, lines - 1)]

\* The files add_durations reads, as they are on disk.
MetadataOnDisk == ad_fs[ad_metadata_file]
TranscriptionsOnDisk == ad_fs[ad_transcriptions_file]

\* add_durations is not running.
AD_Idle ==
    /\ ad_pc = "idle"
    /\ ad_metadata_file = "m.csv"
    /\ ad_transcriptions_file = "t.csv"
    /\ ad_output_file = "out.csv"
    /\ ad_fs = [p \in AdPaths |-> NoFile]
    /\ metadata_rows = <<>>
    /\ transcriptions = NoFile
    /\ duration_map = EmptyDict
    /\ ad_i = 0
    /\ ad_output = NoFile
    /\ ad_outfile = Opened
    /\ rows_processed = 0
    /\ rows_matched = 0
    /\ rows_unmatched = 0

\* add_durations.py:78-101  the arguments are parsed; -o may name the
\* metadata file, the transcriptions file or another file
AD_Init ==
    /\ ad_pc = "read_metadata"
    /\ ad_metadata_file = "m.csv"
    /\ ad_transcriptions_file = "t.csv"
    /\ ad_output_file \in AdPaths
    /\ metadata_rows \in SeqsUpTo(MetadataRows, MaxMeta)
    /\ transcriptions \in TransFiles
    /\ ad_fs = [p \in AdPaths |->
                  IF p = ad_metadata_file THEN MetadataFile(metadata_rows)
                  ELSE IF p = ad_transcriptions_file THEN transcriptions
                  ELSE NoFile]
    /\ duration_map = EmptyDict
    /\ ad_i = 0
    /\ ad_output = NoFile
    /\ ad_outfile = Opened
    /\ rows_processed = 0
    /\ rows_matched = 0
    /\ rows_unmatched = 0

\* add_durations.py:26-29  one iteration of the metadata loop
AD_ReadMetadataRow ==
    /\ UNCHANGED other_than_ad
    /\ ad_pc = "read_metadata"
    /\ ad_i < Len(MetadataOnDisk.rows)
    /\ LET row == MetadataOnDisk.rows[ad_i + 1]
       IN duration_map' = DictSet(duration_map, row["Filename"], row["duration_sec"])
    /\ ad_i' = ad_i + 1
    /\ UNCHANGED <<ad_pc, ad_paths, ad_fs, metadata_rows, transcriptions,
                   ad_output, ad_outfile, rows_processed, rows_matched,
                   rows_unmatched>>

\* add_durations.py:35-46  counters reset, the transcriptions file opened for
\* reading and the output for writing, header written.  Opening the output
\* empties the file of that name, the transcriptions file included, before a
\* row of it is read; the header line is pending in the file object.
AD_WriteHeader ==
    /\ UNCHANGED other_than_ad
    /\ ad_pc = "read_metadata"
    /\ ad_i = Len(MetadataOnDisk.rows)
    /\ ad_pc' = "process"
    /\ ad_i' = 0
    /\ rows_processed' = 0
    /\ rows_matched' = 0
    /\ rows_unmatched' = 0
    /\ ad_output' = [exists |-> TRUE, headers |-> OutputHeaders, rows |-> <<>>]
    /\ ad_outfile' = Write(Opened, LineBytes(OutputHeaders))
    /\ ad_fs' = [ad_fs EXCEPT
                   ![ad_output_file] = OnDisk(ad_output', ad_outfile'.flushed)]
    /\ UNCHANGED <<ad_paths, metadata_rows, transcriptions, duration_map>>

\* AD_ProcessRow with the joined row put in front of the rows written so far.
AD_ProcessRow_Prepend ==
    /\ UNCHANGED other_than_ad
    /\ ad_pc = "process"
    /\ ad_i < Len(TranscriptionsOnDisk.rows)
    /\ LET row == TranscriptionsOnDisk.rows[ad_i + 1]
           duration == DurationOf(duration_map, row["Filename"])
       IN /\ IF Truthy(duration)
             THEN /\ rows_matched' = rows_matched + 1
                  /\ UNCHANGED rows_unmatched
             ELSE /\ rows_unmatched' = rows_unmatched + 1
                  /\ UNCHANGED rows_matched
          /\ ad_output' = [ad_output EXCEPT
                             !.rows = <<JoinedRow(duration_map, row)>> \o @]
          /\ ad_outfile' =
                Write(ad_outfile, LineBytes(LineOf(JoinedRow(duration_map, row))))
    /\ ad_fs' = [ad_fs EXCEPT
                   ![ad_output_file] = OnDisk(ad_output', ad_outfile'.flushed)]
    /\ rows_processed' = rows_processed + 1
    /\ ad_i' = ad_i + 1
    /\ UNCHANGED <<ad_pc, ad_paths, metadata_rows, transcriptions, duration_map>>

\* add_durations.py:49-70  one iteration of the transcriptions loop: the row
\* is written to the file object, which may pass lines on to the disk
AD_ProcessRow ==
    /\ UNCHANGED other_than_ad
    /\ ad_pc = "process"
    /\ ad_i < Len(TranscriptionsOnDisk.rows)
    /\ LET row == TranscriptionsOnDisk.rows[ad_i + 1]
           duration == DurationOf(duration_map, row["Filename"])
       IN /\ IF Truthy(duration)
             THEN /\ rows_matched' = rows_matched + 1
                  /\ UNCHANGED rows_unmatched
             ELSE /\ rows_unmatched' = rows_unmatched + 1
                  /\ UNCHANGED rows_matched
          /\ ad_output' = [ad_output EXCEPT
                             !.rows = Append(@, JoinedRow(duration_map, row))]
          /\ ad_outfile' =
                Write(ad_outfile, LineBytes(LineOf(JoinedRow(duration_map, row))))
    /\ ad_fs' = [ad_fs EXCEPT
                   ![ad_output_file] = OnDisk(ad_output', ad_outfile'.flushed)]
    /\ rows_processed' = rows_processed + 1
    /\ ad_i' = ad_i + 1
    /\ UNCHANGED <<ad_pc, ad_paths, metadata_rows, transcriptions, duration_map>>

\* add_durations.py:49, 72-76  the loop is exhausted, the files close (the
\* output file now holds what was written), the summary prints
AD_Finish ==
    /\ UNCHANGED other_than_ad
    /\ ad_pc = "process"
    /\ ad_i = Len(TranscriptionsOnDisk.rows)
    /\ ad_pc' = "done"
    /\ ad_outfile' = Close(ad_outfile)
    /\ ad_fs' = [ad_fs EXCEPT
                   ![ad_output_file] = OnDisk(ad_output, ad_outfile'.flushed)]
    /\ UNCHANGED <<ad_paths, metadata_rows, transcriptions, duration_map, ad_i,
                   ad_output, rows_processed, rows_matched, rows_unmatched>>

AD_Next ==
    \/ AD_ReadMetadataRow
    \/ AD_WriteHeader
    \/ AD_ProcessRow
    \/ AD_Finish

----------------------------------------------------------------------------
(* reorder_to_match.py                                                     *)

\* The header lines of the files given to reorder_to_match: the key column
\* is named 'Filename' or 'File'.
RefHeaders == { <<"Filename">>, <<"File">> }
TargetHeaders == { <<"Filename", "transcript">>, <<"File", "transcript">> }
MatchColumns == {"Filename"}

RefFiles == UNION {FilesWith(h, JoinFilenames, MaxRef) : h \in RefHeaders}
TargetFiles == UNION {FilesWith(h, Filenames, MaxTarget) : h \in TargetHeaders}

\* The paths the arguments of reorder_to_match.py name.
ReorderPaths == {"ref.csv", "t.csv", "out.csv"}

\* What input() returns at the overwrite prompt; EOF stands for the end of
\* standard input, where input() raises EOFError.
EOF == "<EOF>"
Responses == {"y", "Y", "n", ""}

\* str.lower() on the responses
Lower(response) == IF response = "Y" THEN "y" ELSE response

\* reorder_to_match is not running.
RO_Idle ==
    /\ ro_pc = "idle"
    /\ reference_file = "ref.csv"
    /\ file_to_reorder = "t.csv"
    /\ output_file = "out.csv"
    /\ ro_fs = [p \in ReorderPaths |-> NoFile]
    /\ reference = NoFile
    /\ target = NoFile
    /\ match_column = "Filename"
    /\ reference_order = <<>>
    /\ rows_dict = EmptyDict
    /\ reordered_rows = <<>>
    /\ missing_count = 0
    /\ extra_keys = {}
    /\ extra_pending = {}
    /\ ro_i = 0
    /\ ro_output = NoFile
    /\ ro_returncode = -1

\* reorder_to_match.py:93-119  the arguments are parsed: -i may name the
\* same file as -r, and -o any of the files or a new one.
RO_Init ==
    /\ ro_pc = "main"
    /\ reference_file = "ref.csv"
    /\ file_to_reorder \in {"t.csv", "ref.csv"}
    /\ output_file \in ReorderPaths
    /\ target \in TargetFiles
    /\ IF file_to_reorder = reference_file
       THEN reference = target
       ELSE reference \in RefFiles
    /\ ro_fs = [p \in ReorderPaths |->
                  IF p = reference_file THEN reference
                  ELSE IF p = file_to_reorder THEN target
                  ELSE NoFile]
    /\ match_column \in MatchColumns
    /\ reference_order = <<>>
    /\ rows_dict = EmptyDict
    /\ reordered_rows = <<>>
    /\ missing_count = 0
    /\ extra_keys = {}
    /\ extra_pending = {}
    /\ ro_i = 0
    /\ ro_output = NoFile
    /\ ro_returncode = -1

\* reorder_to_match.py:121-128  main asks before overwriting the input, and
\* calls reorder_to_match otherwise
RO_Main ==
    /\ UNCHANGED other_than_ro
    /\ ro_pc = "main"
    /\ ro_pc' = IF output_file = file_to_reorder THEN "confirm" ELSE "read_reference"
    /\ UNCHANGED <<reference, target, match_column, ro_paths, ro_fs,
                   reference_order, rows_dict, reordered_rows, missing_count,
                   extra_keys, extra_pending, ro_i, ro_output, ro_returncode>>

\* reorder_to_match.py:123-128  input() returns: at the end of standard input
\* it raises EOFError and the script ends with exit status 1; on a response
\* other than y or Y main prints 'Cancelled.' and returns, exit status 0;
\* otherwise reorder_to_match is called.
RO_Confirm ==
    /\ UNCHANGED other_than_ro
    /\ ro_pc = "confirm"
    /\ \E response \in Responses \cup {EOF} :
          IF response = EOF
          THEN /\ ro_pc' = "main_done"
               /\ ro_returncode' = 1
          ELSE IF Lower(response) # "y"
          THEN /\ ro_pc' = "main_done"
               /\ ro_returncode' = 0
          ELSE /\ ro_pc' = "read_reference"
               /\ UNCHANGED ro_returncode
    /\ UNCHANGED <<reference, target, match_column, ro_paths, ro_fs,
                   reference_order, rows_dict, reordered_rows, missing_count,
                   extra_keys, extra_pending, ro_i, ro_output>>

\* reorder_to_match.py:27-28  one iteration of the reference loop;
\* row[match_column] raises KeyError when the reference has no such column,
\* and the uncaught exception ends the script with exit status 1.
RO_ReadReferenceRow ==
    /\ UNCHANGED other_than_ro
    /\ ro_pc = "read_reference"
    /\ ro_i < Len(reference.rows)
    /\ LET row == reference.rows[ro_i + 1]
       IN IF match_column \in DOMAIN row
          THEN /\ reference_order' = Append(reference_order, row[match_column])
               /\ ro_i' = ro_i + 1
               /\ UNCHANGED <<ro_pc, ro_returncode>>
          ELSE /\ ro_pc' = "done"
               /\ ro_returncode' = 1
               /\ UNCHANGED <<reference_order, ro_i>>
    /\ UNCHANGED <<reference, target, match_column, ro_paths, ro_fs, rows_dict,
                   reordered_rows, missing_count, extra_keys, extra_pending,
                   ro_output>>

\* reorder_to_match.py:34-44  the file to reorder is opened and its header
\* checked; without the match column the function prints an error and
\* returns, main returns and the script ends with exit status 0.
RO_OpenTarget ==
    /\ UNCHANGED other_than_ro
    /\ ro_pc = "read_reference"
    /\ ro_i = Len(reference.rows)
    /\ rows_dict' = EmptyDict
    /\ ro_i' = 0
    /\ IF match_column \notin Range(target.headers)
       THEN /\ ro_pc' = "done"
            /\ ro_returncode' = 0
       ELSE /\ ro_pc' = "read_target"
            /\ UNCHANGED ro_returncode
    /\ UNCHANGED <<reference, target, match_column, ro_paths, ro_fs, reference_order,
                   reordered_rows, missing_count, extra_keys, extra_pending,
                   ro_output>>

\* RO_ReadTargetRow with the first row of a key kept (setdefault) instead of
\* the last.
RO_ReadTargetRow_FirstWins ==
    /\ UNCHANGED other_than_ro
    /\ ro_pc = "read_target"
    /\ ro_i < Len(target.rows)
    /\ LET row == target.rows[ro_i + 1]
       IN IF row[match_column] \in DOMAIN rows_dict
          THEN UNCHANGED rows_dict
          ELSE rows_dict' = DictSet(rows_dict, row[match_column], row)
    /\ ro_i' = ro_i + 1
    /\ UNCHANGED <<ro_pc, reference, target, match_column, ro_paths, ro_fs,
                   reference_order, reordered_rows, missing_count, extra_keys,
                   extra_pending, ro_output, ro_returncode>>

\* reorder_to_match.py:46-48  one iteration of the loop filling rows_dict
RO_ReadTargetRow ==
    /\ UNCHANGED other_than_ro
    /\ ro_pc = "read_target"
    /\ ro_i < Len(target.rows)
    /\ LET row == target.rows[ro_i + 1]
       IN rows_dict' = DictSet(rows_dict, row[match_column], row)
    /\ ro_i' = ro_i + 1
    /\ UNCHANGED <<ro_pc, reference, target, match_column, ro_paths, ro_fs,
                   reference_order, reordered_rows, missing_count, extra_keys,
                   extra_pending, ro_output, ro_returncode>>

\* reorder_to_match.py:54-55  the reorder loop starts
RO_StartReorder ==
    /\ UNCHANGED other_than_ro
    /\ ro_pc = "read_target"
    /\ ro_i = Len(target.rows)
    /\ ro_pc' = "reorder"
    /\ reordered_rows' = <<>>
    /\ missing_count' = 0
    /\ ro_i' = 0
    /\ UNCHANGED <<reference, target, match_column, ro_paths, ro_fs, reference_order,
                   rows_dict, extra_keys, extra_pending, ro_output,
                   ro_returncode>>

\* RO_ReorderStep with an absent reference key skipped but never counted.
RO_ReorderStep_NoCount ==
    /\ UNCHANGED other_than_ro
    /\ ro_pc = "reorder"
    /\ ro_i < Len(reference_order)
    /\ LET ref_key == reference_order[ro_i + 1]
       IN IF ref_key \in DOMAIN rows_dict
          THEN reordered_rows' = Append(reordered_rows, rows_dict[ref_key])
          ELSE UNCHANGED reordered_rows
    /\ ro_i' = ro_i + 1
    /\ UNCHANGED <<ro_pc, reference, target, match_column, ro_paths, ro_fs,
                   reference_order, rows_dict, missing_count, extra_keys,
                   extra_pending, ro_output, ro_returncode>>

\* RO_ReorderStep with the found row put at the front of the list
\* (insert(0, row)) instead of appended.
RO_ReorderStep_Prepend ==
    /\ UNCHANGED other_than_ro
    /\ ro_pc = "reorder"
    /\ ro_i < Len(reference_order)
    /\ LET ref_key == reference_order[ro_i + 1]
       IN IF ref_key \in DOMAIN rows_dict
          THEN /\ reordered_rows' = <<rows_dict[ref_key]>> \o reordered_rows
               /\ UNCHANGED missing_count
          ELSE /\ missing_count' = missing_count + 1
               /\ UNCHANGED reordered_rows
    /\ ro_i' = ro_i + 1
    /\ UNCHANGED <<ro_pc, reference, target, match_column, ro_paths, ro_fs,
                   reference_order, rows_dict, extra_keys, extra_pending,
                   ro_output, ro_returncode>>

\* reorder_to_match.py:57-62  one iteration of the loop over reference_order
RO_ReorderStep ==
    /\ UNCHANGED other_than_ro
    /\ ro_pc = "reorder"
    /\ ro_i < Len(reference_order)
    /\ LET ref_key == reference_order[ro_i + 1]
       IN IF ref_key \in DOMAIN rows_dict
          THEN /\ reordered_rows' = Append(reordered_rows, rows_dict[ref_key])
               /\ UNCHANGED missing_count
          ELSE /\ missing_count' = missing_count + 1
               /\ UNCHANGED reordered_rows
    /\ ro_i' = ro_i + 1
    /\ UNCHANGED <<ro_pc, reference, target, match_column, ro_paths, ro_fs,
                   reference_order, rows_dict, extra_keys, extra_pending,
                   ro_output, ro_returncode>>

\* RO_CheckExtras with the extra rows reported but not queued for appending.
RO_CheckExtras_Dropped ==
    /\ UNCHANGED other_than_ro
    /\ ro_pc = "reorder"
    /\ ro_i = Len(reference_order)
    /\ extra_keys' = (DOMAIN rows_dict) \ Range(reference_order)
    /\ extra_pending' = {}
    /\ ro_pc' = "append_extras"
    /\ UNCHANGED <<reference, target, match_column, ro_paths, ro_fs, reference_order,
                   rows_dict, reordered_rows, missing_count, ro_i, ro_output,
                   ro_returncode>>

\* RO_CheckExtras with the set difference forgotten: every key of rows_dict
\* counts as extra.
RO_CheckExtras_AllKeys ==
    /\ UNCHANGED other_than_ro
    /\ ro_pc = "reorder"
    /\ ro_i = Len(reference_order)
    /\ extra_keys' = DOMAIN rows_dict
    /\ extra_pending' = extra_keys'
    /\ ro_pc' = "append_extras"
    /\ UNCHANGED <<reference, target, match_column, ro_paths, ro_fs, reference_order,
                   rows_dict, reordered_rows, missing_count, ro_i, ro_output,
                   ro_returncode>>

\* reorder_to_match.py:65  extra_keys = set(rows_dict.keys()) - set(reference_order)
RO_CheckExtras ==
    /\ UNCHANGED other_than_ro
    /\ ro_pc = "reorder"
    /\ ro_i = Len(reference_order)
    /\ extra_keys' = (DOMAIN rows_dict) \ Range(reference_order)
    /\ extra_pending' = extra_keys'
    /\ ro_pc' = "append_extras"
    /\ UNCHANGED <<reference, target, match_column, ro_paths, ro_fs, reference_order,
                   rows_dict, reordered_rows, missing_count, ro_i, ro_output,
                   ro_returncode>>

\* reorder_to_match.py:75-76  one iteration of 'for key in extra_keys'; a set
\* of str iterates in hash order, which differs from run to run.
RO_AppendExtra ==
    /\ UNCHANGED other_than_ro
    /\ ro_pc = "append_extras"
    /\ \E key \in extra_pending :
          /\ reordered_rows' = Append(reordered_rows, rows_dict[key])
          /\ extra_pending' = extra_pending \ {key}
    /\ UNCHANGED <<ro_pc, reference, target, match_column, ro_paths, ro_fs,
                   reference_order, rows_dict, missing_count, extra_keys, ro_i,
                   ro_output, ro_returncode>>

\* reorder_to_match.py:80-90  the output file is written under the header of
\* the file to reorder, replacing whatever output_file named before (the
\* input or the reference when the paths are the same); the function and the
\* script end, exit status 0.
RO_Write ==
    /\ UNCHANGED other_than_ro
    /\ ro_pc = "append_extras"
    /\ extra_pending = {}
    /\ ro_output' = [exists |-> TRUE,
                     headers |-> target.headers,
                     rows |-> reordered_rows]
    /\ ro_fs' = [ro_fs EXCEPT ![output_file] = ro_output']
    /\ ro_pc' = "done"
    /\ ro_returncode' = 0
    /\ UNCHANGED <<reference, target, match_column, ro_paths, reference_order,
                   rows_dict, reordered_rows, missing_count, extra_keys,
                   extra_pending, ro_i>>

RO_Next ==
    \/ RO_Main
    \/ RO_Confirm
    \/ RO_ReadReferenceRow
    \/ RO_OpenTarget
    \/ RO_ReadTargetRow
    \/ RO_StartReorder
    \/ RO_ReorderStep
    \/ RO_CheckExtras
    \/ RO_AppendExtra
    \/ RO_Write

----------------------------------------------------------------------------
(* stitch_chunks.py                                                        *)

\* The CSV files an input folder may hold, in the lexicographic order of
\* their paths, which is the order list.sort() puts them in.
ChunkNames == <<"chunk_1.csv", "chunk_10.csv", "chunk_2.csv">>

\* csv.reader yields a line as the list of its cells.
ChunkRows == { <<"a.wav", "hi">>, <<"b.wav", "bye">> }

\* A data line longer than ChunkSize.
LongRow == <<"c.wav", LongText>>

\* The data lines of a chunk file: different lines of ChunkRows, or the long
\* line.
ChunkData ==
    {rs \in SeqsUpTo(ChunkRows, MaxChunkRows) :
        \A i, j \in 1..Len(rs) : rs[i] = rs[j] => i = j}
    \cup {<<LongRow>>}

\* A chunk file: one that cannot be read (a directory of that name, a file
\* without read permission or with bytes that do not decode), an empty one,
\* or a header line followed by data lines; under the 'transcript' header,
\* by one line of ChunkRows at most.
ChunkFiles ==
    {[openable |-> FALSE, lines |-> <<>>], [openable |-> TRUE, lines |-> <<>>]}
    \cup {[openable |-> TRUE, lines |-> <<<<"Filename", "Transcription">>>> \o rs] :
            rs \in ChunkData}
    \cup {[openable |-> TRUE, lines |-> <<<<"Filename", "transcript">>>> \o rs] :
            rs \in SeqsUpTo(ChunkRows, 1)}

Folders == UNION {[names -> ChunkFiles] : names \in SUBSET Range(ChunkNames)}

\* The lists without repetition of the elements of S: the orders in which
\* glob.glob may return the files.
Orders(S) == {o \in [1..Cardinality(S) -> S] : Range(o) = S}

\* stitch_chunks.py:33  csv_files.sort()
SortNames(files) == SelectSeq(ChunkNames, LAMBDA n : n \in Range(files))

NoOutput == [exists |-> FALSE, lines |-> <<>>]

\* The default of -o: a file outside the input folder.
DefaultOutput == "combined_transcriptions.csv"

\* stitch_csv_files is not running.
ST_Idle ==
    /\ st_pc = "idle"
    /\ folder = EmptyDict
    /\ st_output_file = DefaultOutput
    /\ st_output_opens = TRUE
    /\ st_fs = EmptyDict
    /\ st_returncode = -1
    /\ sort_files = TRUE
    /\ csv_files = <<>>
    /\ st_i = 0
    /\ st_j = 0
    /\ header_written = FALSE
    /\ rows_written = 0
    /\ st_output = NoOutput
    /\ st_outfile = Opened

\* stitch_chunks.py:77-112  the arguments are parsed and the folder exists;
\* -o names a file elsewhere or one of the folder's CSV files, which can be
\* opened for writing or cannot (a directory, a file without write
\* permission, a path in a folder that does not exist)
ST_Init ==
    /\ st_pc = "glob"
    /\ folder \in Folders
    /\ st_output_file \in DOMAIN folder \cup {DefaultOutput}
    /\ st_output_opens \in BOOLEAN
    /\ st_fs = folder
    /\ st_returncode = -1
    /\ sort_files \in BOOLEAN
    /\ csv_files = <<>>
    /\ st_i = 0
    /\ st_j = 0
    /\ header_written = FALSE
    /\ rows_written = 0
    /\ st_output = NoOutput
    /\ st_outfile = Opened

\* stitch_chunks.py:26-30  no CSV file in the folder: the function returns
\* before the output file is opened
ST_NoFiles ==
    /\ UNCHANGED other_than_st
    /\ st_pc = "glob"
    /\ DOMAIN st_fs = {}
    /\ st_pc' = "done"
    /\ st_returncode' = 0
    /\ UNCHANGED <<st_args, st_fs, csv_files, st_i, st_j, header_written,
                   rows_written, st_output, st_outfile>>

\* stitch_chunks.py:41  what open(output_file, 'w') that succeeds leaves on
\* disk: a new empty file; a file that was there is emptied, and one that
\* could not be read is then readable (its bytes did not decode) or still
\* unreadable (no read permission).
OpenedForWriting(fs, path) ==
    IF path \in DOMAIN fs /\ ~fs[path].openable
    THEN {[openable |-> TRUE, lines |-> <<>>], [openable |-> FALSE, lines |-> <<>>]}
    ELSE {[openable |-> TRUE, lines |-> <<>>]}

\* The files on disk after the file object has written: output_file holds
\* the lines written that have left the buffers of the file object.
Flushed(fs, written, outfile) ==
    [fs EXCEPT ![st_output_file].lines = SubSeq(written.lines, 1, outfile.flushed)]

\* stitch_chunks.py:26-41  glob lists the files in an order of its own, the
\* list is sorted unless --no-sort, and the output file is opened for
\* writing, which empties a file of the folder that has its name; when the
\* file cannot be opened for writing, open raises, nothing catches the
\* exception and the script ends with exit status 1, the files as they were
ST_Start ==
    /\ UNCHANGED other_than_st
    /\ st_pc = "glob"
    /\ DOMAIN st_fs # {}
    /\ \E listing \in Orders(DOMAIN st_fs) :
          csv_files' = IF sort_files THEN SortNames(listing) ELSE listing
    /\ header_written' = FALSE
    /\ rows_written' = 0
    /\ st_i' = 0
    /\ st_j' = 0
    /\ IF st_output_opens
       THEN /\ \E opened \in OpenedForWriting(st_fs, st_output_file) :
                  st_fs' = [p \in DOMAIN st_fs \cup {st_output_file} |->
                              IF p = st_output_file THEN opened ELSE st_fs[p]]
            /\ st_output' = [exists |-> TRUE, lines |-> <<>>]
            /\ st_pc' = "files"
            /\ UNCHANGED st_returncode
       ELSE /\ st_pc' = "done"
            /\ st_returncode' = 1
            /\ UNCHANGED <<st_fs, st_output>>
    /\ UNCHANGED <<st_args, st_outfile>>

\* The file the loop over csv_files is at, as it is on disk when it is read:
\* a file that the output names holds the lines that have left the buffers
\* of the file object.
CurrentFile == st_fs[csv_files[st_i + 1]]

\* stitch_chunks.py:47-56, 69-71  open() raises and the exception is caught,
\* or next(reader) raises StopIteration on an empty file: the loop continues
\* with the next file
ST_SkipFile ==
    /\ UNCHANGED other_than_st
    /\ st_pc = "files"
    /\ st_i < Len(csv_files)
    /\ ~CurrentFile.openable \/ CurrentFile.lines = <<>>
    /\ st_i' = st_i + 1
    /\ UNCHANGED <<st_pc, st_args, st_fs, csv_files, st_j, header_written,
                   rows_written, st_output, st_outfile, st_returncode>>

\* stitch_chunks.py:48-62  the file opens, its header line is read, and is
\* written if no header was written before
ST_ReadHeader ==
    /\ UNCHANGED other_than_st
    /\ st_pc = "files"
    /\ st_i < Len(csv_files)
    /\ CurrentFile.openable
    /\ CurrentFile.lines # <<>>
    /\ IF ~header_written
       THEN /\ st_output' = [st_output EXCEPT
                               !.lines = Append(@, CurrentFile.lines[1])]
            /\ st_outfile' = Write(st_outfile, LineBytes(CurrentFile.lines[1]))
            /\ st_fs' = Flushed(st_fs, st_output', st_outfile')
            /\ header_written' = TRUE
       ELSE UNCHANGED <<st_output, st_outfile, st_fs, header_written>>
    /\ st_j' = 1
    /\ st_pc' = "rows"
    /\ UNCHANGED <<st_args, csv_files, st_i, rows_written, st_returncode>>

\* stitch_chunks.py:65-67  one iteration of the loop over the data lines:
\* the line is written to the file object, which may pass lines on to the
\* disk, where a reader of the output file finds them.  The loop does not
\* end when it reads the lines it writes; the model leaves it after
\* MaxRowsWritten rows.
ST_WriteRow ==
    /\ UNCHANGED other_than_st
    /\ st_pc = "rows"
    /\ st_j < Len(CurrentFile.lines)
    /\ rows_written < MaxRowsWritten
    /\ st_output' = [st_output EXCEPT
                       !.lines = Append(@, CurrentFile.lines[st_j + 1])]
    /\ st_outfile' = Write(st_outfile, LineBytes(CurrentFile.lines[st_j + 1]))
    /\ st_fs' = Flushed(st_fs, st_output', st_outfile')
    /\ rows_written' = rows_written + 1
    /\ st_j' = st_j + 1
    /\ UNCHANGED <<st_pc, st_args, csv_files, st_i, header_written,
                   st_returncode>>

\* stitch_chunks.py:48, 44  the reader is exhausted, the file closes, the
\* loop goes on to the next file
ST_CloseFile ==
    /\ UNCHANGED other_than_st
    /\ st_pc = "rows"
    /\ st_j = Len(CurrentFile.lines)
    /\ st_i' = st_i + 1
    /\ st_j' = 0
    /\ st_pc' = "files"
    /\ UNCHANGED <<st_args, st_fs, csv_files, header_written, rows_written,
                   st_output, st_outfile, st_returncode>>

\* stitch_chunks.py:44, 73-74  every file was visited: the output closes, so
\* that the file holds every line written, and the summary prints
ST_Finish ==
    /\ UNCHANGED other_than_st
    /\ st_pc = "files"
    /\ st_i = Len(csv_files)
    /\ st_pc' = "done"
    /\ st_returncode' = 0
    /\ st_outfile' = Close(st_outfile)
    /\ st_fs' = Flushed(st_fs, st_output, st_outfile')
    /\ UNCHANGED <<st_args, csv_files, st_i, st_j, header_written,
                   rows_written, st_output>>

ST_Next ==
    \/ ST_NoFiles
    \/ ST_Start
    \/ ST_SkipFile
    \/ ST_ReadHeader
    \/ ST_WriteRow
    \/ ST_CloseFile
    \/ ST_Finish

----------------------------------------------------------------------------
(* process.py                                                              *)

\* process.py:145  the default of -m / --metadata
DefaultMetadata == "metadata_copy.csv"

Names == {"Sarah", "Louis"}
MetadataArgs == {DefaultMetadata, "other_metadata.csv"}

\* The exit statuses a step's process may end with: 0, 1 after an uncaught
\* exception, 2 after a usage error.
ReturnCodes == {0, 1, 2}

\* os.path.join(folder, name)
PathJoin(dir, name) == dir \o "/" \o name

\* process.py:67-69
CombinedFile == PathJoin(output_folder, "combined_transcriptions.csv")
WithDurationFile == PathJoin(output_folder, "combined_transcriptions_duration.csv")
FinalFile == PathJoin(output_folder, args_name \o "_final.csv")

\* process.py:107-122  the command list of each step
StepCommand(step) ==
    CASE step = 1 ->
           <<"python3", "stitch_chunks.py", "-i", input_folder, "-o", CombinedFile>>
      [] step = 2 ->
           <<"python3", "add_durations.py", "-m", metadata_file,
             "-t", CombinedFile, "-o", WithDurationFile>>
      [] step = 3 ->
           <<"python3", "reorder_to_match.py", "-r", metadata_file,
             "-i", WithDurationFile, "-o", FinalFile>>

\* The driver is not running.
DR_Idle ==
    /\ dr_pc = "idle"
    /\ args_name = "Sarah"
    /\ args_metadata = DefaultMetadata
    /\ global_metadata_file = None
    /\ input_folder = None
    /\ output_folder = None
    /\ metadata_file = None
    /\ fs_input_folder = "absent"
    /\ fs_csv_count = 0
    /\ fs_metadata_files = {}
    /\ fs_output_folder = "absent"
    /\ dr_step = 0
    /\ commands = <<>>
    /\ returncodes = <<>>
    /\ dr_complete = FALSE
    /\ dr_exit = -1

DR_Init ==
    /\ dr_pc = "main"
    /\ args_name \in Names
    /\ args_metadata \in MetadataArgs
    /\ global_metadata_file = None
    /\ input_folder = None
    /\ output_folder = None
    /\ metadata_file = None
    /\ fs_input_folder \in {"absent", "file", "dir"}
    /\ fs_csv_count \in 0..MaxCsv
    /\ fs_input_folder # "dir" => fs_csv_count = 0
    /\ fs_metadata_files \in SUBSET MetadataArgs
    /\ fs_output_folder \in {"absent", "file", "dir"}
    /\ dr_step = 0
    /\ commands = <<>>
    /\ returncodes = <<>>
    /\ dr_complete = FALSE
    /\ dr_exit = -1

\* process.py:149-156  main: a -m other than the default is assigned to the
\* module-level name metadata_file, then process_transcriptions is called
DR_Main ==
    /\ UNCHANGED other_than_dr
    /\ dr_pc = "main"
    /\ global_metadata_file' =
          IF args_metadata # DefaultMetadata THEN args_metadata
          ELSE global_metadata_file
    /\ dr_pc' = "define_paths"
    /\ UNCHANGED <<args_name, args_metadata, input_folder, output_folder,
                   metadata_file, fs_input_folder, fs_csv_count,
                   fs_metadata_files, fs_output_folder, dr_step, commands,
                   returncodes, dr_complete, dr_exit>>

\* process.py:62-64  the locals of process_transcriptions
DR_DefinePaths ==
    /\ UNCHANGED other_than_dr
    /\ dr_pc = "define_paths"
    /\ input_folder' = args_name \o "_files"
    /\ output_folder' = args_name \o "_generated_files"
    /\ metadata_file' = "metadata_copy.csv"
    /\ dr_pc' = "validate_input"
    /\ UNCHANGED <<args_name, args_metadata, global_metadata_file,
                   fs_input_folder, fs_csv_count, fs_metadata_files,
                   fs_output_folder, dr_step, commands, returncodes,
                   dr_complete, dr_exit>>

\* process.py:79-86  the input folder must exist and be a directory
DR_ValidateInput ==
    /\ UNCHANGED other_than_dr
    /\ dr_pc = "validate_input"
    /\ IF fs_input_folder # "dir"
       THEN dr_pc' = "done" /\ dr_exit' = 1
       ELSE dr_pc' = "check_csv" /\ UNCHANGED dr_exit
    /\ UNCHANGED <<args_name, args_metadata, global_metadata_file,
                   input_folder, output_folder, metadata_file, fs_input_folder,
                   fs_csv_count, fs_metadata_files, fs_output_folder, dr_step,
                   commands, returncodes, dr_complete>>

\* process.py:89-94  the input folder must hold a CSV file
DR_CheckCsvFiles ==
    /\ UNCHANGED other_than_dr
    /\ dr_pc = "check_csv"
    /\ IF fs_csv_count = 0
       THEN dr_pc' = "done" /\ dr_exit' = 1
       ELSE dr_pc' = "validate_metadata" /\ UNCHANGED dr_exit
    /\ UNCHANGED <<args_name, args_metadata, global_metadata_file,
                   input_folder, output_folder, metadata_file, fs_input_folder,
                   fs_csv_count, fs_metadata_files, fs_output_folder, dr_step,
                   commands, returncodes, dr_complete>>

\* process.py:97-100  the metadata file must exist
DR_ValidateMetadata ==
    /\ UNCHANGED other_than_dr
    /\ dr_pc = "validate_metadata"
    /\ IF metadata_file \notin fs_metadata_files
       THEN dr_pc' = "done" /\ dr_exit' = 1
       ELSE dr_pc' = "makedirs" /\ UNCHANGED dr_exit
    /\ UNCHANGED <<args_name, args_metadata, global_metadata_file,
                   input_folder, output_folder, metadata_file, fs_input_folder,
                   fs_csv_count, fs_metadata_files, fs_output_folder, dr_step,
                   commands, returncodes, dr_complete>>

\* process.py:103-104  os.makedirs(output_folder, exist_ok=True) creates the
\* folder, or leaves the directory that is there; where the path is a file
\* of another kind it raises FileExistsError, which nothing catches: the
\* driver ends with exit status 1 before any step
DR_MakeOutputFolder ==
    /\ UNCHANGED other_than_dr
    /\ dr_pc = "makedirs"
    /\ IF fs_output_folder = "file"
       THEN /\ dr_pc' = "done"
            /\ dr_exit' = 1
            /\ UNCHANGED <<fs_output_folder, dr_step>>
       ELSE /\ fs_output_folder' = "dir"
            /\ dr_step' = 1
            /\ dr_pc' = "step"
            /\ UNCHANGED dr_exit
    /\ UNCHANGED <<args_name, args_metadata, global_metadata_file,
                   input_folder, output_folder, metadata_file, fs_input_folder,
                   fs_csv_count, fs_metadata_files, commands, returncodes,
                   dr_complete>>

\* process.py:107-122, 31-36  run_command is called for the next step and
\* hands its command to subprocess.run
DR_RunCommand ==
    /\ UNCHANGED other_than_dr
    /\ dr_pc = "step"
    /\ dr_step \in 1..3
    /\ commands' = Append(commands, StepCommand(dr_step))
    /\ dr_pc' = "wait"
    /\ UNCHANGED <<args_name, args_metadata, global_metadata_file,
                   input_folder, output_folder, metadata_file, fs_input_folder,
                   fs_csv_count, fs_metadata_files, fs_output_folder, dr_step,
                   returncodes, dr_complete, dr_exit>>

\* DR_CommandReturns with the exit status never looked at.
DR_CommandReturns_IgnoreStatus ==
    /\ UNCHANGED other_than_dr
    /\ dr_pc = "wait"
    /\ \E returncode \in ReturnCodes :
          returncodes' = Append(returncodes, returncode)
    /\ dr_pc' = "step"
    /\ dr_step' = dr_step + 1
    /\ UNCHANGED <<args_name, args_metadata, global_metadata_file,
                   input_folder, output_folder, metadata_file, fs_input_folder,
                   fs_csv_count, fs_metadata_files, fs_output_folder, commands,
                   dr_complete, dr_exit>>

\* process.py:36-51  subprocess.run returns once the step's process has
\* ended; a non-zero status makes run_command call sys.exit(1)
DR_CommandReturns ==
    /\ UNCHANGED other_than_dr
    /\ dr_pc = "wait"
    /\ \E returncode \in ReturnCodes :
          /\ returncodes' = Append(returncodes, returncode)
          /\ IF returncode # 0
             THEN /\ dr_pc' = "done"
                  /\ dr_exit' = 1
                  /\ UNCHANGED dr_step
             ELSE /\ dr_pc' = "step"
                  /\ dr_step' = dr_step + 1
                  /\ UNCHANGED dr_exit
    /\ UNCHANGED <<args_name, args_metadata, global_metadata_file,
                   input_folder, output_folder, metadata_file, fs_input_folder,
                   fs_csv_count, fs_metadata_files, fs_output_folder, commands,
                   dr_complete>>

\* process.py:124-131  the three steps succeeded: the report prints and the
\* driver ends with exit status 0
DR_Complete ==
    /\ UNCHANGED other_than_dr
    /\ dr_pc = "step"
    /\ dr_step = 4
    /\ dr_complete' = TRUE
    /\ dr_exit' = 0
    /\ dr_pc' = "done"
    /\ UNCHANGED <<args_name, args_metadata, global_metadata_file,
                   input_folder, output_folder, metadata_file, fs_input_folder,
                   fs_csv_count, fs_metadata_files, fs_output_folder, dr_step,
                   commands, returncodes>>

DR_Next ==
    \/ DR_Main
    \/ DR_DefinePaths
    \/ DR_ValidateInput
    \/ DR_CheckCsvFiles
    \/ DR_ValidateMetadata
    \/ DR_MakeOutputFolder
    \/ DR_RunCommand
    \/ DR_CommandReturns
    \/ DR_Complete

----------------------------------------------------------------------------
(* order_csvs.py                                                           *)

\* The keys of the files given to order_csv_files, in the order Python's
\* str comparison puts them in (by code point: 'B' < 'a' < 'b').
KeyOrder == <<"B.wav", "a.wav", "b.wav">>
SortKeys == Range(KeyOrder)

\* The place of a key in that order.
Rank(key) == CHOOSE i \in 1..Len(KeyOrder) : KeyOrder[i] = key

\* a <= b on str
StrLeq(a, b) == Rank(a) <= Rank(b)

\* a < b on str
StrLess(a, b) == Rank(a) < Rank(b)

SortColumns == {"Filename"}
OtherKeys == {"a.wav", "b.wav"}
SortFiles1 == UNION {FilesWith(h, SortKeys, MaxSortRows) : h \in TargetHeaders}
SortFiles2 == UNION {FilesWith(h, OtherKeys, MaxOtherRows) : h \in RefHeaders}

\* A path as pathlib.Path takes it apart: the folder, the stem and the
\* suffix of the file name; "." is the current directory.
PathOf(parent, stem) == [parent |-> parent, stem |-> stem, suffix |-> ".csv"]
NoPath == [parent |-> "", stem |-> "", suffix |-> ""]

\* order_csvs.py:61-62  path.stem + output_suffix + path.suffix: a name in
\* the current directory, whatever folder the input is in
OutputName(path, suffix) ==
    [parent |-> ".", stem |-> path.stem \o suffix, suffix |-> path.suffix]

\* The command lines explored: two files of different names, two files of
\* the same name in two folders, a second file that has the name derived
\* for the first, a first file that has the name derived for the second,
\* the same file twice, and an empty suffix.
SortInvocations ==
    { [file1 |-> PathOf("d1", "x"), file2 |-> PathOf("d1", "y"), suffix |-> "_ordered"],
      [file1 |-> PathOf("d1", "x"), file2 |-> PathOf("d2", "x"), suffix |-> "_ordered"],
      [file1 |-> PathOf(".", "x"), file2 |-> PathOf(".", "x_ordered"), suffix |-> "_ordered"],
      [file1 |-> PathOf(".", "x_ordered"), file2 |-> PathOf(".", "x"), suffix |-> "_ordered"],
      [file1 |-> PathOf(".", "x"), file2 |-> PathOf(".", "x"), suffix |-> "_ordered"],
      [file1 |-> PathOf(".", "x"), file2 |-> PathOf("d1", "y"), suffix |-> ""] }

\* Every path an invocation reads or writes.
SortPaths ==
    UNION {{inv.file1, inv.file2, OutputName(inv.file1, inv.suffix),
            OutputName(inv.file2, inv.suffix)} : inv \in SortInvocations}

\* InsertSorted that puts a row before the rows of equal key: the sort is
\* no longer stable.
InsertSorted_BeforeEqual(sorted, row, column) ==
    LET n == Cardinality({i \in 1..Len(sorted) :
                             StrLess(sorted[i][column], row[column])})
    IN SubSeq(sorted, 1, n) \o <<row>> \o SubSeq(sorted, n + 1, Len(sorted))

\* One step of a stable sort: the row goes after every row whose key is not
\* greater than its own.
InsertSorted(sorted, row, column) ==
    LET n == Cardinality({i \in 1..Len(sorted) :
                             StrLeq(sorted[i][column], row[column])})
    IN SubSeq(sorted, 1, n) \o <<row>> \o SubSeq(sorted, n + 1, Len(sorted))

\* order_csvs.py:54-55  sorted(rows, key=lambda x: x[sort_column])
RECURSIVE SortedBy(_, _)
SortedBy(rows, column) ==
    IF rows = <<>> THEN <<>>
    ELSE InsertSorted(SortedBy(SubSeq(rows, 1, Len(rows) - 1), column),
                      rows[Len(rows)], column)

\* The lambda raises KeyError on a row without the column.
SortRaises(rows, column) == \E i \in 1..Len(rows) : column \notin DOMAIN rows[i]

\* order_csv_files is not running.
OC_Idle ==
    /\ oc_pc = "idle"
    /\ file1 = NoPath
    /\ file2 = NoPath
    /\ sort_column = "Filename"
    /\ output_suffix = "_ordered"
    /\ oc_fs = [p \in SortPaths |-> NoFile]
    /\ headers1 = <<>>
    /\ headers2 = <<>>
    /\ rows1 = <<>>
    /\ rows2 = <<>>
    /\ rows1_sorted = <<>>
    /\ rows2_sorted = <<>>
    /\ output1 = NoPath
    /\ output2 = NoPath
    /\ values_match = "unknown"
    /\ oc_returncode = -1

\* order_csvs.py:99-124  the arguments are parsed; the two files hold rows
OC_Init ==
    /\ oc_pc = "read1"
    /\ \E inv \in SortInvocations :
          /\ file1 = inv.file1
          /\ file2 = inv.file2
          /\ output_suffix = inv.suffix
    /\ \E content1 \in SortFiles1 :
       \E content2 \in IF file1 = file2 THEN {content1} ELSE SortFiles2 :
          oc_fs = [p \in SortPaths |->
                      IF p = file1 THEN content1
                      ELSE IF p = file2 THEN content2
                      ELSE NoFile]
    /\ sort_column \in SortColumns
    /\ headers1 = <<>>
    /\ headers2 = <<>>
    /\ rows1 = <<>>
    /\ rows2 = <<>>
    /\ rows1_sorted = <<>>
    /\ rows2_sorted = <<>>
    /\ output1 = NoPath
    /\ output2 = NoPath
    /\ values_match = "unknown"
    /\ oc_returncode = -1

\* order_csvs.py:22-29  the first file is read whole
OC_ReadFile1 ==
    /\ UNCHANGED other_than_oc
    /\ oc_pc = "read1"
    /\ headers1' = oc_fs[file1].headers
    /\ rows1' = oc_fs[file1].rows
    /\ oc_pc' = "read2"
    /\ UNCHANGED <<file1, file2, sort_column, output_suffix, oc_fs, headers2, rows2, rows1_sorted,
                   rows2_sorted, output1, output2, values_match, oc_returncode>>

\* order_csvs.py:31-38  the second file is read whole
OC_ReadFile2 ==
    /\ UNCHANGED other_than_oc
    /\ oc_pc = "read2"
    /\ headers2' = oc_fs[file2].headers
    /\ rows2' = oc_fs[file2].rows
    /\ oc_pc' = "check1"
    /\ UNCHANGED <<file1, file2, sort_column, output_suffix, oc_fs, headers1, rows1, rows1_sorted,
                   rows2_sorted, output1, output2, values_match, oc_returncode>>

\* order_csvs.py:41-44  without the sort column in the first file the
\* function prints an error and returns; the script ends with exit status 0
OC_CheckColumn1 ==
    /\ UNCHANGED other_than_oc
    /\ oc_pc = "check1"
    /\ IF sort_column \notin Range(headers1)
       THEN oc_pc' = "done" /\ oc_returncode' = 0
       ELSE oc_pc' = "check2" /\ UNCHANGED oc_returncode
    /\ UNCHANGED <<file1, file2, sort_column, output_suffix, oc_fs, headers1, headers2, rows1, rows2,
                   rows1_sorted, rows2_sorted, output1, output2, values_match>>

\* OC_CheckColumn2 with the return after the error message left out.
OC_CheckColumn2_NoReturn ==
    /\ UNCHANGED other_than_oc
    /\ oc_pc = "check2"
    /\ oc_pc' = "sort"
    /\ UNCHANGED <<file1, file2, sort_column, output_suffix, oc_fs, headers1, headers2, rows1, rows2,
                   rows1_sorted, rows2_sorted, output1, output2, values_match,
                   oc_returncode>>

\* order_csvs.py:46-49  the same check for the second file
OC_CheckColumn2 ==
    /\ UNCHANGED other_than_oc
    /\ oc_pc = "check2"
    /\ IF sort_column \notin Range(headers2)
       THEN oc_pc' = "done" /\ oc_returncode' = 0
       ELSE oc_pc' = "sort" /\ UNCHANGED oc_returncode
    /\ UNCHANGED <<file1, file2, sort_column, output_suffix, oc_fs, headers1, headers2, rows1, rows2,
                   rows1_sorted, rows2_sorted, output1, output2, values_match>>

\* order_csvs.py:54-62  both row lists are sorted and the output names
\* derived; a KeyError raised by the key function is not caught and ends the
\* script with exit status 1
OC_Sort ==
    /\ UNCHANGED other_than_oc
    /\ oc_pc = "sort"
    /\ IF SortRaises(rows1, sort_column) \/ SortRaises(rows2, sort_column)
       THEN /\ oc_pc' = "done"
            /\ oc_returncode' = 1
            /\ UNCHANGED <<rows1_sorted, rows2_sorted, output1, output2>>
       ELSE /\ rows1_sorted' = SortedBy(rows1, sort_column)
            /\ rows2_sorted' = SortedBy(rows2, sort_column)
            /\ output1' = OutputName(file1, output_suffix)
            /\ output2' = OutputName(file2, output_suffix)
            /\ oc_pc' = "write1"
            /\ UNCHANGED oc_returncode
    /\ UNCHANGED <<file1, file2, sort_column, output_suffix, oc_fs, headers1,
                   headers2, rows1, rows2, values_match>>

\* order_csvs.py:65-69  the sorted first file is written to output1,
\* replacing whatever file had that name
OC_Write1 ==
    /\ UNCHANGED other_than_oc
    /\ oc_pc = "write1"
    /\ oc_fs' = [oc_fs EXCEPT ![output1] =
                    [exists |-> TRUE, headers |-> headers1, rows |-> rows1_sorted]]
    /\ oc_pc' = "write2"
    /\ UNCHANGED <<file1, file2, sort_column, output_suffix, headers1, headers2,
                   rows1, rows2, rows1_sorted, rows2_sorted, output1, output2,
                   values_match, oc_returncode>>

\* order_csvs.py:72-76  the sorted second file is written to output2,
\* replacing whatever file had that name, output1 included
OC_Write2 ==
    /\ UNCHANGED other_than_oc
    /\ oc_pc = "write2"
    /\ oc_fs' = [oc_fs EXCEPT ![output2] =
                    [exists |-> TRUE, headers |-> headers2, rows |-> rows2_sorted]]
    /\ oc_pc' = "compare"
    /\ UNCHANGED <<file1, file2, sort_column, output_suffix, headers1, headers2,
                   rows1, rows2, rows1_sorted, rows2_sorted, output1, output2,
                   values_match, oc_returncode>>

\* order_csvs.py:83-96  the two sorted key lists are compared; the function
\* and the script end, exit status 0
OC_Compare ==
    /\ UNCHANGED other_than_oc
    /\ oc_pc = "compare"
    /\ LET values1 == [i \in 1..Len(rows1_sorted) |-> rows1_sorted[i][sort_column]]
           values2 == [i \in 1..Len(rows2_sorted) |-> rows2_sorted[i][sort_column]]
       IN values_match' = IF values1 = values2 THEN "same" ELSE "different"
    /\ oc_pc' = "done"
    /\ oc_returncode' = 0
    /\ UNCHANGED <<file1, file2, sort_column, output_suffix, oc_fs, headers1, headers2, rows1, rows2,
                   rows1_sorted, rows2_sorted, output1, output2>>

OC_Next ==
    \/ OC_ReadFile1
    \/ OC_ReadFile2
    \/ OC_CheckColumn1
    \/ OC_CheckColumn2
    \/ OC_Sort
    \/ OC_Write1
    \/ OC_Write2
    \/ OC_Compare

----------------------------------------------------------------------------
(* compare_filenames.py                                                    *)

\* The data lines csv.reader yields: a blank line gives an empty list, any
\* other line the list of its cells, the filename first.
CompareLines == {<<>>} \cup {<<k>> : k \in Filenames}

\* A file of diff-keys: no line at all, or a header line and data lines.
CompareFiles ==
    {<<>>} \cup {<<<<"Filename">>>> \o ls : ls \in SeqsUpTo(CompareLines, MaxCompareRows)}

\* compare_filenames.py:28-30  row[0] of every non-empty row after the header
RECURSIVE FirstCells(_)
FirstCells(lines) ==
    IF lines = <<>> THEN <<>>
    ELSE (IF Head(lines) # <<>> THEN <<Head(lines)[1]>> ELSE <<>>)
         \o FirstCells(Tail(lines))

\* compare_filenames.py:73-74  [f for f in set if filenames.count(f) > 1]
Duplicates(set, filenames) ==
    {f \in set : Cardinality({i \in 1..Len(filenames) : filenames[i] = f}) > 1}

\* compare_filenames is not running.
CF_Idle ==
    /\ cf_pc = "idle"
    /\ cf_lines1 = <<>>
    /\ cf_lines2 = <<>>
    /\ filenames1 = <<>>
    /\ filenames2 = <<>>
    /\ set1 = {}
    /\ set2 = {}
    /\ only_in_file1 = {}
    /\ only_in_file2 = {}
    /\ common_count = 0
    /\ dups1 = {}
    /\ dups2 = {}
    /\ cf_returncode = -1

CF_Init ==
    /\ cf_pc = "read1"
    /\ cf_lines1 \in CompareFiles
    /\ cf_lines2 \in CompareFiles
    /\ filenames1 = <<>>
    /\ filenames2 = <<>>
    /\ set1 = {}
    /\ set2 = {}
    /\ only_in_file1 = {}
    /\ only_in_file2 = {}
    /\ common_count = 0
    /\ dups1 = {}
    /\ dups2 = {}
    /\ cf_returncode = -1

\* compare_filenames.py:24-30  the first file is read; next(reader) raises
\* StopIteration on a file without a line, which ends the script with exit
\* status 1
CF_ReadFile1 ==
    /\ UNCHANGED other_than_cf
    /\ cf_pc = "read1"
    /\ IF cf_lines1 = <<>>
       THEN /\ cf_pc' = "done"
            /\ cf_returncode' = 1
            /\ UNCHANGED filenames1
       ELSE /\ filenames1' = FirstCells(Tail(cf_lines1))
            /\ cf_pc' = "read2"
            /\ UNCHANGED cf_returncode
    /\ UNCHANGED <<cf_lines1, cf_lines2, filenames2, set1, set2, only_in_file1,
                   only_in_file2, common_count, dups1, dups2>>

\* compare_filenames.py:33-39  the same for the second file
CF_ReadFile2 ==
    /\ UNCHANGED other_than_cf
    /\ cf_pc = "read2"
    /\ IF cf_lines2 = <<>>
       THEN /\ cf_pc' = "done"
            /\ cf_returncode' = 1
            /\ UNCHANGED filenames2
       ELSE /\ filenames2' = FirstCells(Tail(cf_lines2))
            /\ cf_pc' = "compare"
            /\ UNCHANGED cf_returncode
    /\ UNCHANGED <<cf_lines1, cf_lines2, filenames1, set1, set2, only_in_file1,
                   only_in_file2, common_count, dups1, dups2>>

\* CF_Compare with the second difference a copy of the first.
CF_Compare_CopiedDifference ==
    /\ UNCHANGED other_than_cf
    /\ cf_pc = "compare"
    /\ set1' = Range(filenames1)
    /\ set2' = Range(filenames2)
    /\ only_in_file1' = set1' \ set2'
    /\ only_in_file2' = set1' \ set2'
    /\ common_count' = Cardinality(set1' \cap set2')
    /\ cf_pc' = "report"
    /\ UNCHANGED <<cf_lines1, cf_lines2, filenames1, filenames2, dups1, dups2,
                   cf_returncode>>

\* compare_filenames.py:42-53  the two sets, their differences and the size
\* of their intersection
CF_Compare ==
    /\ UNCHANGED other_than_cf
    /\ cf_pc = "compare"
    /\ set1' = Range(filenames1)
    /\ set2' = Range(filenames2)
    /\ only_in_file1' = set1' \ set2'
    /\ only_in_file2' = set2' \ set1'
    /\ common_count' = Cardinality(set1' \cap set2')
    /\ cf_pc' = "report"
    /\ UNCHANGED <<cf_lines1, cf_lines2, filenames1, filenames2, dups1, dups2,
                   cf_returncode>>

\* compare_filenames.py:55-86  the differences are listed, or, when there is
\* none, the duplicates of each file; the script ends with exit status 0
CF_Report ==
    /\ UNCHANGED other_than_cf
    /\ cf_pc = "report"
    /\ IF only_in_file1 = {} /\ only_in_file2 = {}
       THEN /\ dups1' = Duplicates(set1, filenames1)
            /\ dups2' = Duplicates(set2, filenames2)
       ELSE UNCHANGED <<dups1, dups2>>
    /\ cf_pc' = "done"
    /\ cf_returncode' = 0
    /\ UNCHANGED <<cf_lines1, cf_lines2, filenames1, filenames2, set1, set2,
                   only_in_file1, only_in_file2, common_count>>

CF_Next ==
    \/ CF_ReadFile1
    \/ CF_ReadFile2
    \/ CF_Compare
    \/ CF_Report

----------------------------------------------------------------------------
(* Specifications: one per script, the other scripts not running.          *)

InitAddDurations == AD_Init /\ RO_Idle /\ ST_Idle /\ DR_Idle /\ OC_Idle /\ CF_Idle
SpecAddDurations == InitAddDurations /\ [][AD_Next]_vars

InitReorder == RO_Init /\ AD_Idle /\ ST_Idle /\ DR_Idle /\ OC_Idle /\ CF_Idle
SpecReorder == InitReorder /\ [][RO_Next]_vars

InitStitch == ST_Init /\ AD_Idle /\ RO_Idle /\ DR_Idle /\ OC_Idle /\ CF_Idle
SpecStitch == InitStitch /\ [][ST_Next]_vars

InitDriver == DR_Init /\ AD_Idle /\ RO_Idle /\ ST_Idle /\ OC_Idle /\ CF_Idle
SpecDriver == InitDriver /\ [][DR_Next]_vars

InitOrderCsvs == OC_Init /\ AD_Idle /\ RO_Idle /\ ST_Idle /\ DR_Idle /\ CF_Idle
SpecOrderCsvs == InitOrderCsvs /\ [][OC_Next]_vars

InitCompare ==
    CF_Init /\ AD_Idle /\ RO_Idle /\ ST_Idle /\ DR_Idle /\ OC_Idle
SpecCompare == InitCompare /\ [][CF_Next]_vars

----------------------------------------------------------------------------
(* Claims about add_durations.py                                           *)

\* The Filename column of a sequence of rows.
KeysOf(rows) == [i \in 1..Len(rows) |-> rows[i]["Filename"]]

\* The keys the metadata file holds, whatever their duration.
MetadataKeys == {metadata_rows[i]["Filename"] : i \in 1..Len(metadata_rows)}

\* C1: for every transcriptions file, duration-join writes exactly
\* one output row per input row, the i-th output row carrying the key of the
\* i-th input row; the counters satisfy rows_matched + rows_unmatched =
\* rows_processed throughout, and at the end the output row count and
\* rows_processed both equal the input row count.
C1_OneOutputRowPerInputRow ==
    /\ ad_pc \in {"process", "done"} =>
          /\ Len(ad_output.rows) = rows_processed
          /\ rows_processed = ad_i
          /\ KeysOf(ad_output.rows) = KeysOf(SubSeq(transcriptions.rows, 1, ad_i))
          /\ rows_matched + rows_unmatched = rows_processed
    /\ ad_pc = "done" =>
          /\ Len(ad_output.rows) = Len(transcriptions.rows)
          /\ rows_processed = Len(transcriptions.rows)

\* C2: at the end rows_unmatched equals the number of primary rows whose key
\* is absent from the metadata mapping (a row is unmatched exactly when its
\* key is not found).
C2_UnmatchedIffKeyAbsent ==
    ad_pc = "done" =>
        rows_unmatched =
            Cardinality({i \in 1..Len(transcriptions.rows) :
                            transcriptions.rows[i]["Filename"] \notin MetadataKeys})

\* The files of the end-to-end example: metadata rows (a.wav,1.2),(b.wav,2.0)
\* in metadata.csv, transcripts rows (b.wav,hi),(a.wav,bye) under
\* Filename,transcript in transcripts.csv, and the duration-join output,
\* which the example goes on to reorder against metadata.csv, a third file.
ExampleInputs ==
    /\ metadata_rows = <<[Filename |-> "a.wav", duration_sec |-> "1.2"],
                         [Filename |-> "b.wav", duration_sec |-> "2.0"]>>
    /\ transcriptions.exists
    /\ transcriptions.headers = <<"Filename", "transcript">>
    /\ transcriptions.rows = <<[Filename |-> "b.wav", transcript |-> "hi"],
                               [Filename |-> "a.wav", transcript |-> "bye"]>>
    /\ ad_output_file \notin {ad_metadata_file, ad_transcriptions_file}

----------------------------------------------------------------------------
(* Claims about reorder_to_match.py                                        *)

\* The values of a column down a sequence of rows.
Column(rows, column) == [i \in 1..Len(rows) |-> rows[i][column]]

\* How often x occurs in a sequence.
CountIn(seq, x) == Cardinality({i \in 1..Len(seq) : seq[i] = x})

SameMultiset(s, t) ==
    \A x \in Range(s) \cup Range(t) : CountIn(s, x) = CountIn(t, x)

NoDuplicates(seq) == \A i, j \in 1..Len(seq) : seq[i] = seq[j] => i = j

\* Both files have the match column, so both have a key sequence.
BothKeyed ==
    /\ match_column \in Range(reference.headers)
    /\ match_column \in Range(target.headers)

RefKeys == Column(reference.rows, match_column)
TargetKeys == Column(target.rows, match_column)

\* The script has run to its end and written its output file.
RO_Written == ro_pc = "done" /\ ro_output.exists

\* C3: when the target's keys are a superset of the reference's keys and
\* neither side repeats a key, the output has the length and the row multiset
\* of the target, its first len(reference) rows carry the reference key
\* sequence, and the rest are the target rows whose key is not in the
\* reference.
C3_SupersetNoDuplicatesIsPermutation ==
    (/\ ro_pc = "done"
     /\ BothKeyed
     /\ Range(RefKeys) \subseteq Range(TargetKeys)
     /\ NoDuplicates(RefKeys)
     /\ NoDuplicates(TargetKeys))
    => /\ ro_output.exists
       /\ Len(ro_output.rows) = Len(target.rows)
       /\ SameMultiset(ro_output.rows, target.rows)
       /\ Column(SubSeq(ro_output.rows, 1, Len(reference.rows)), match_column)
              = RefKeys
       /\ Range(SubSeq(ro_output.rows, Len(reference.rows) + 1,
                       Len(ro_output.rows)))
              = {r \in Range(target.rows) :
                    r[match_column] \notin Range(RefKeys)}

\* C3 witness: a finished run whose target holds the two reference keys in
\* the opposite order and one more row.
C3_Witness ==
    /\ RO_Written
    /\ BothKeyed
    /\ Len(reference.rows) = 2
    /\ Len(target.rows) = 3
    /\ Range(RefKeys) \subseteq Range(TargetKeys)
    /\ NoDuplicates(RefKeys)
    /\ NoDuplicates(TargetKeys)
    /\ TargetKeys[1] = RefKeys[2]
    /\ TargetKeys[2] = RefKeys[1]

\* The reference positions the reorder loop has visited whose key is absent
\* from / present in the target.
AbsentPositions(n) == {i \in 1..n : reference_order[i] \notin DOMAIN rows_dict}
PresentPositions(n) == {i \in 1..n : reference_order[i] \in DOMAIN rows_dict}

\* C4: the loop over the reference appends the target row of each present
\* key, in order, and counts each absent key in missing_count without emitting
\* a row; at the end missing_count is the number of reference positions whose
\* key is absent from the target and the output length is the number of
\* present positions plus the number of distinct target keys not in the
\* reference.
C4_MissingCountAndLength ==
    /\ ro_pc = "reorder" =>
          /\ missing_count = Cardinality(AbsentPositions(ro_i))
          /\ Len(reordered_rows) = Cardinality(PresentPositions(ro_i))
          /\ \A i \in 1..Len(reordered_rows) :
                \E p \in PresentPositions(ro_i) :
                   /\ Cardinality(PresentPositions(p)) = i
                   /\ reordered_rows[i] = rows_dict[reference_order[p]]
    /\ RO_Written =>
          /\ missing_count =
                Cardinality({i \in 1..Len(reference.rows) :
                                RefKeys[i] \notin Range(TargetKeys)})
          /\ Len(ro_output.rows) =
                Cardinality({i \in 1..Len(reference.rows) :
                                RefKeys[i] \in Range(TargetKeys)})
                + Cardinality(Range(TargetKeys) \ Range(RefKeys))

\* C4 witness: a finished run with a reference key absent from the target,
\* a reference key present in it, and a target key outside the reference.
C4_Witness ==
    /\ RO_Written
    /\ missing_count >= 1
    /\ \E i \in 1..Len(reference_order) : reference_order[i] \in DOMAIN rows_dict
    /\ extra_keys # {}

\* C5 as stated: every output row is a row of the target and no row occurs
\* in the output more often than in the target.
C5_OutputIsSubMultisetOfTarget ==
    RO_Written =>
        \A r \in Range(ro_output.rows) :
            /\ r \in Range(target.rows)
            /\ CountIn(ro_output.rows, r) <= CountIn(target.rows, r)

\* C5 amended: every output row is a row of the target; a row whose key
\* occurs n >= 1 times in the reference is output exactly n times and any
\* other output row exactly once, so a row occurs in the output more often
\* than in the target only when the reference repeats its key.
C5_OutputRowsFollowReferenceCounts ==
    RO_Written =>
        \A r \in Range(ro_output.rows) :
            /\ r \in Range(target.rows)
            /\ CountIn(ro_output.rows, r) =
                  IF r[match_column] \in Range(reference_order)
                  THEN CountIn(reference_order, r[match_column])
                  ELSE 1
            /\ CountIn(ro_output.rows, r) > CountIn(target.rows, r)
                  => CountIn(reference_order, r[match_column]) > 1

\* C5 witness: a finished run whose reference repeats a key of the target
\* and whose target has a row outside the reference.
C5_Witness ==
    /\ RO_Written
    /\ \E k \in DOMAIN rows_dict : CountIn(reference_order, k) = 2
    /\ extra_keys # {}

\* C6 as stated: whenever the target's key sequence equals the reference's
\* key sequence, the output row sequence equals the target's row sequence.
C6_SameKeyOrderIsNoOp ==
    (RO_Written /\ BothKeyed /\ TargetKeys = RefKeys)
    => ro_output.rows = target.rows

\* C6 amended: whenever the target's key sequence equals the reference's key
\* sequence and no key occurs in it twice, the output row sequence equals the
\* target's row sequence.
C6_SameDistinctKeyOrderIsNoOp ==
    (RO_Written /\ BothKeyed /\ TargetKeys = RefKeys /\ NoDuplicates(TargetKeys))
    => ro_output.rows = target.rows

\* C6 witness: a finished run over two rows with distinct keys in the
\* reference's order.
C6_Witness ==
    /\ RO_Written
    /\ BothKeyed
    /\ TargetKeys = RefKeys
    /\ NoDuplicates(TargetKeys)
    /\ Len(target.rows) = 2

\* C8: when the match column is absent from the file to reorder, the reorder
\* script ends with a non-zero exit status.
C8_MissingColumnExitsNonZero ==
    (ro_pc = "done" /\ match_column \notin Range(target.headers))
    => ro_returncode # 0

\* The last row of the target that carries the key.
LastTargetRow(key) ==
    LET at == {i \in 1..Len(target.rows) :
                  target.rows[i][match_column] = key}
    IN target.rows[CHOOSE i \in at : \A j \in at : j <= i]

\* The number of output rows the loop over the reference has produced.
ReferenceOrderedCount == Cardinality(PresentPositions(Len(reference_order)))

\* C16: reorder loses no target key.  Every row emitted, during the run and
\* in the written output, is the last target row of its key; in the written
\* output the set of keys is the set of distinct keys of the target, the
\* rows of the keys found in the reference come first, and every target key
\* absent from the reference appears exactly once, after them.
C16_NoTargetKeyLost ==
    /\ ro_pc \in {"reorder", "append_extras", "done"} =>
          \A i \in 1..Len(reordered_rows) :
             reordered_rows[i] = LastTargetRow(reordered_rows[i][match_column])
    /\ RO_Written =>
          LET out == Column(ro_output.rows, match_column)
          IN /\ Range(out) = Range(TargetKeys)
             /\ ReferenceOrderedCount <= Len(out)
             /\ \A i \in 1..Len(out) :
                   /\ i <= ReferenceOrderedCount => out[i] \in Range(RefKeys)
                   /\ i > ReferenceOrderedCount => out[i] \notin Range(RefKeys)
             /\ \A k \in Range(TargetKeys) \ Range(RefKeys) : CountIn(out, k) = 1
             /\ \A i \in 1..Len(out) :
                   ro_output.rows[i] = LastTargetRow(out[i])

\* C16 witness: a written output for a target that repeats a key with two
\* different rows and holds a key the reference lacks, the reference naming
\* a key of the target.
C16_Witness ==
    /\ RO_Written
    /\ \E i, j \in 1..Len(target.rows) :
          /\ i < j
          /\ TargetKeys[i] = TargetKeys[j]
          /\ target.rows[i] # target.rows[j]
    /\ extra_keys # {}
    /\ ReferenceOrderedCount >= 1

----------------------------------------------------------------------------
(* Claims about stitch_chunks.py                                           *)

\* The files of csv_files[from..] that open and are not empty, as the folder
\* holds them when the script starts.
RECURSIVE Included(_)
Included(from) ==
    IF from > Len(csv_files) THEN <<>>
    ELSE LET f == folder[csv_files[from]]
         IN (IF f.openable /\ f.lines # <<>> THEN <<f>> ELSE <<>>)
            \o Included(from + 1)

\* The data lines of a list of files, file after file.
RECURSIVE DataLines(_)
DataLines(files) ==
    IF files = <<>> THEN <<>>
    ELSE Tail(Head(files).lines) \o DataLines(Tail(files))

\* C9: the stitched output is the header of the first non-empty
\* file in processing order, whatever the later headers, followed by the data
\* rows of every readable file, in file order and row order; rows_written is
\* the sum of the files' row counts; empty or unopenable files contribute
\* nothing and do not stop the later files.
C9_OneHeaderThenAllRows ==
    (st_pc = "done" /\ st_output.exists) =>
        LET files == Included(1)
        IN /\ rows_written = Len(DataLines(files))
           /\ st_output.lines =
                 IF files = <<>> THEN <<>>
                 ELSE <<Head(files).lines[1]>> \o DataLines(files)

----------------------------------------------------------------------------
(* Claims about process.py                                                 *)

\* process.py:108, 114, 120  the scripts of the pipeline, in order
StepScripts == <<"stitch_chunks.py", "add_durations.py", "reorder_to_match.py">>

SomeStepFailed == \E i \in 1..Len(returncodes) : returncodes[i] # 0

\* C7: the steps are started in the order stitch, add_durations, reorder; a
\* step is started only after every earlier step has completed with exit
\* status zero; once a step has returned a non-zero status no later step is
\* started, the driver exits with status 1 and the 'Processing complete'
\* report is not reached.
C7_StepsInOrderAbortOnFailure ==
    /\ Len(commands) <= 3
    /\ \A i \in 1..Len(commands) : commands[i][2] = StepScripts[i]
    /\ Len(returncodes) <= Len(commands)
    /\ Len(commands) <= Len(returncodes) + 1
    /\ \A i \in 1..Len(commands) - 1 : returncodes[i] = 0
    /\ SomeStepFailed =>
          /\ Len(commands) = Len(returncodes)
          /\ dr_pc = "done"
          /\ dr_exit = 1
          /\ ~dr_complete
    /\ dr_complete =>
          /\ Len(returncodes) = 3
          /\ ~SomeStepFailed
          /\ dr_exit = 0

\* C7 witness: stitch succeeded, add_durations failed, and the driver has
\* ended.
C7_Witness ==
    /\ dr_pc = "done"
    /\ Len(commands) = 2
    /\ returncodes[1] = 0
    /\ returncodes[2] # 0

\* C10: the metadata file the driver checks and passes to add_durations (-m)
\* and to reorder (-r) is the path given with -m.
C10_MetadataOverrideUsed ==
    /\ dr_pc \notin {"main", "define_paths"} => metadata_file = args_metadata
    /\ \A i \in 1..Len(commands) :
          commands[i][2] \in {"add_durations.py", "reorder_to_match.py"}
             => commands[i][4] = args_metadata

\* The preconditions of the pipeline: the input folder is a directory holding
\* a CSV file, and the metadata file, the one -m names or its default,
\* exists.
Preconditions ==
    /\ fs_input_folder = "dir"
    /\ fs_csv_count >= 1
    /\ args_metadata \in fs_metadata_files

\* The state part of C11.
C11_StepsOnlyAfterValidation ==
    /\ (commands # <<>> \/ dr_pc \in {"step", "wait"} \/ dr_complete)
          => Preconditions
    /\ (dr_pc = "done" /\ ~Preconditions) => (dr_exit = 1 /\ commands = <<>>)

\* C11: no pipeline step is started and the output folder is not created
\* unless the input folder exists, is a directory, holds at least one CSV
\* file, and the metadata file exists; when a check fails the driver exits
\* with status 1 before any step runs.
C11_NoStepUnlessPreconditions ==
    /\ []C11_StepsOnlyAfterValidation
    /\ [][fs_output_folder' # fs_output_folder => Preconditions]_vars

----------------------------------------------------------------------------
(* Claims about order_csvs.py                                              *)

\* The key column of a list of rows is non-decreasing in str order.
NonDecreasing(rows, column) ==
    \A i \in 1..Len(rows) - 1 : StrLeq(rows[i][column], rows[i + 1][column])

\* The rows of a list that carry a given key, in the order of the list.
WithKey(rows, column, key) == SelectSeq(rows, LAMBDA r : r[column] = key)

\* out is rows, stably sorted by column.
StablySorted(out, rows, column) ==
    /\ NonDecreasing(out, column)
    /\ SameMultiset(out, rows)
    /\ Len(out) = Len(rows)
    /\ \A key \in SortKeys : WithKey(out, column, key) = WithKey(rows, column, key)

\* The file is the input (header and rows as read), stably sorted.
SortedFileOf(file, headers, rows) ==
    /\ file.exists
    /\ file.headers = headers
    /\ StablySorted(file.rows, rows, sort_column)

\* Both outputs have been written.
OC_Written == oc_pc = "compare" \/ (oc_pc = "done" /\ values_match # "unknown")

\* C12 as stated: once the outputs are written, the output file of each
\* input is that input stably sorted by the sort column.
C12_OutputStablySorted ==
    OC_Written =>
        /\ SortedFileOf(oc_fs[output1], headers1, rows1)
        /\ SortedFileOf(oc_fs[output2], headers2, rows2)

\* C12 amended: the file written for an input is that input stably sorted by
\* the sort column (key column non-decreasing in str order, same row
\* multiset, rows of equal key in input order); the first file's output
\* stays so unless the second file's output has the same name, in which case
\* that one file holds the second input, sorted.
C12_OutputStablySortedUnlessSameName ==
    /\ oc_pc = "write2" => SortedFileOf(oc_fs[output1], headers1, rows1)
    /\ OC_Written =>
          /\ SortedFileOf(oc_fs[output2], headers2, rows2)
          /\ output1 # output2 => SortedFileOf(oc_fs[output1], headers1, rows1)
    /\ (oc_pc = "done" /\ sort_column \in Range(headers1)
                       /\ sort_column \in Range(headers2))
          => (OC_Written /\ oc_returncode = 0)

\* C12 witness: the outputs are written, under two different names, for a
\* three-row first file that was out of order and holds two rows of one key.
C12_Witness ==
    /\ oc_pc = "done"
    /\ OC_Written
    /\ output1 # output2
    /\ Len(rows1) = 3
    /\ ~NonDecreasing(rows1, sort_column)
    /\ rows1[1][sort_column] = rows1[3][sort_column]
    /\ rows1[1] # rows1[3]

\* Nothing has been sorted, named or written.
NoEffect ==
    /\ rows1_sorted = <<>>
    /\ rows2_sorted = <<>>
    /\ output1 = NoPath
    /\ output2 = NoPath
    /\ \A p \in SortPaths \ {file1, file2} : ~oc_fs[p].exists

\* Both headers, as read, have the sort column.
ColumnInBoth ==
    sort_column \in Range(headers1) /\ sort_column \in Range(headers2)

\* Up to the two checks, and at the end when a check failed, there is no
\* effect; the sort and the writes are reached only with the column in both.
C15_NoEffectUntilChecked ==
    /\ oc_pc \in {"read1", "read2", "check1", "check2"} => NoEffect
    /\ (oc_pc = "done" /\ ~ColumnInBoth) => (NoEffect /\ oc_returncode = 0)
    /\ oc_pc \in {"sort", "write1", "write2", "compare"} => ColumnInBoth

\* C15: the sort column is checked for both files before anything is sorted
\* or written: when it is absent from either file's header, neither output
\* file is written and no file changes.
C15_NoOutputWhenColumnMissing ==
    /\ []C15_NoEffectUntilChecked
    /\ [][oc_fs' # oc_fs => ColumnInBoth]_vars

\* C15 witness: the script has ended on a column that the first file has
\* and the second lacks, the first file holding rows.
C15_Witness ==
    /\ oc_pc = "done"
    /\ sort_column \in Range(headers1)
    /\ sort_column \notin Range(headers2)
    /\ Len(rows1) >= 2
    /\ NoEffect

----------------------------------------------------------------------------
(* Claims about compare_filenames.py                                       *)

\* The filenames a file holds: the first cell of its non-empty data lines.
FilenamesIn(lines) == {lines[i][1] : i \in {j \in 2..Len(lines) : lines[j] # <<>>}}

\* C13: only_in_file1, only_in_file2 and set1 & set2 are pairwise disjoint
\* and their union is set1 | set2, set1 and set2 being the filenames of the
\* two files; so the three sizes the script reports add up to the size of
\* the union.
C13_DifferencesPartitionUnion ==
    cf_pc \in {"report", "done"} /\ cf_returncode # 1 =>
        LET keys1 == FilenamesIn(cf_lines1)
            keys2 == FilenamesIn(cf_lines2)
            both == keys1 \cap keys2
        IN /\ set1 = keys1
           /\ set2 = keys2
           /\ only_in_file1 \cap only_in_file2 = {}
           /\ only_in_file1 \cap both = {}
           /\ only_in_file2 \cap both = {}
           /\ only_in_file1 \cup only_in_file2 \cup both = keys1 \cup keys2
           /\ Cardinality(only_in_file1) + Cardinality(only_in_file2)
                 + common_count = Cardinality(keys1 \cup keys2)

\* C13 witness: a finished comparison of two files that share a filename
\* and each hold one the other lacks.
C13_Witness ==
    /\ cf_pc = "done"
    /\ cf_returncode = 0
    /\ only_in_file1 # {}
    /\ only_in_file2 # {}
    /\ common_count >= 1
====
